---- MODULE Spec2Model ----
(***************************************************************************)
(* Priority operations of the rollup node (core/models/src/node/           *)
(* priority_ops.rs): the fixed-width pubdata codec of Deposit and FullExit,*)
(* the dispatcher parse_from_priority_queue_logs, and the event envelope   *)
(* decoder TryFrom<Log> for PriorityOp.                                    *)
(*                                                                         *)
(* Representation.  A byte string is a sequence over 0..255.  An unsigned  *)
(* integer wider than 31 bits (u64, u128, U256) is a "big natural": its    *)
(* big-endian base-256 digits without leading zero digits, so that two     *)
(* such integers are equal exactly when their digit sequences are equal;   *)
(* zero is the empty sequence.  A BigDecimal with zero fractional digits   *)
(* is its sequence of base-10 digits, most significant first.              *)
(* A Result is a record with tag "Ok" (value), "Err" (msg), and a panic    *)
(* (unwinding out of the caller) is a record with tag "Panic" (msg).       *)
(***************************************************************************)
EXTENDS Integers, Sequences, FiniteSets, TLC

\* ---------------------------------------------------------------- bounds
\* Longest pubdata buffer handed to the dispatcher.
MaxPubdataLen == 60

\* Longest sequence of logs the ingestion loop is run on.
MaxLogs == 2

\* ------------------------------------------------- protocol field widths
\* crate::params: the widths that give the layouts [20B][2B][16B][20B] of a
\* deposit and [3B][20B][2B] of a full exit.
ACCOUNT_ID_BIT_WIDTH == 24

BALANCE_BIT_WIDTH == 128

ETHEREUM_KEY_BIT_WIDTH == 160

FR_ADDRESS_LEN == 20

TOKEN_BIT_WIDTH == 16

\* DepositOp::OP_CODE (operations.rs); any byte other than the full-exit code
\* gives the same dispatch.
DepositOp_OP_CODE == 1

\* FullExitOp::OP_CODE
FullExitOp_OP_CODE == 6

\* FullExit::TX_TYPE
TX_TYPE == 6

\* ------------------------------------------------------- result values
Ok(v) == [tag |-> "Ok", value |-> v]

Err(m) == [tag |-> "Err", msg |-> m]

Panic(m) == [tag |-> "Panic", msg |-> m]

None == [some |-> FALSE]

Some(v) == [some |-> TRUE, value |-> v]

\* ------------------------------------------------------ byte primitives
Byte == 0..255

RECURSIVE StripZeros(_)
\* The big natural denoted by a big-endian byte string.
StripZeros(s) ==
    IF s = <<>> THEN <<>>
    ELSE IF Head(s) = 0 THEN StripZeros(Tail(s))
    ELSE s

\* slice::split_at(mid): panics when mid > len.
CanSplit(s, mid) == mid <= Len(s)

SplitLeft(s, mid) == SubSeq(s, 1, mid)

SplitRight(s, mid) == SubSeq(s, mid + 1, Len(s))

\* Address::from_slice on a 20-byte slice: the bytes, unchanged.
Address_from_slice(s) == s

\* u16::from_be_bytes
u16_from_be_bytes(b) == b[1] * 256 + b[2]

\* u16::to_le_bytes in the place of to_be_bytes.
u16_to_le_bytes(x) == << x % 256, (x \div 256) % 256 >>

\* u16::to_be_bytes
u16_to_be_bytes(x) == << (x \div 256) % 256, x % 256 >>

\* u32::to_be_bytes
u32_to_be_bytes(x) ==
    << (x \div 16777216) % 256, (x \div 65536) % 256, (x \div 256) % 256, x % 256 >>

RECURSIVE Reverse(_)
Reverse(s) == IF s = <<>> THEN <<>> ELSE Append(Reverse(Tail(s)), Head(s))

\* u128::from_le_bytes in the place of from_be_bytes.
u128_from_le_bytes(b) == StripZeros(Reverse(b))

\* u128::from_be_bytes
u128_from_be_bytes(b) == StripZeros(b)

RECURSIVE BeValue(_, _)
\* Big-endian value of a byte slice, accumulated from the left.
BeValue(bytes, acc) ==
    IF bytes = <<>> THEN acc
    ELSE BeValue(Tail(bytes), acc * 256 + Head(bytes))

\* primitives::bytes_slice_to_uint32: None for more than 4 bytes, else the
\* big-endian value of the slice left-padded with zero bytes.
bytes_slice_to_uint32(bytes) ==
    IF Len(bytes) > 4 THEN None ELSE Some(BeValue(bytes, 0))

RECURSIVE Div10(_, _)
\* Quotient digits of (carry, s) / 10 in base 256.
Div10(s, carry) ==
    IF s = <<>> THEN <<>>
    ELSE LET cur == carry * 256 + Head(s)
         IN  <<cur \div 10>> \o Div10(Tail(s), cur % 10)

RECURSIVE Rem10(_, _)
\* Remainder of (carry, s) / 10 in base 256.
Rem10(s, carry) ==
    IF s = <<>> THEN carry
    ELSE Rem10(Tail(s), (carry * 256 + Head(s)) % 10)

RECURSIVE DecimalDigits(_)
\* Base-10 digits of a non-zero big natural; <<>> for zero.
DecimalDigits(n) ==
    IF n = <<>> THEN <<>>
    ELSE Append(DecimalDigits(StripZeros(Div10(n, 0))), Rem10(n, 0))

\* The canonical base-10 digit string of an unsigned integer ("0" for zero).
ToDecimalString(n) == IF n = <<>> THEN <<0>> ELSE DecimalDigits(n)

\* primitives::u128_to_bigdecimal: the exact decimal, zero fractional digits.
u128_to_bigdecimal(n) == ToDecimalString(n)

\* ------------------------------------------------------ Operation codec
\* get_bytes without the [1..] on the account id: all four bytes are written.
get_bytes_whole_id(self) ==
    <<TX_TYPE>>
        \o u32_to_be_bytes(self.account_id)
        \o self.eth_address
        \o u16_to_be_bytes(self.token)

\* FullExit::get_bytes
get_bytes(self) ==
    <<TX_TYPE>>
        \o SubSeq(u32_to_be_bytes(self.account_id), 2, 4)
        \o self.eth_address
        \o u16_to_be_bytes(self.token)

SplitAtPanic == "split_at: mid > len"

\* parse_from_priority_queue_logs, arm DepositOp::OP_CODE
ParseDeposit(pub_data) ==
    IF ~CanSplit(pub_data, ETHEREUM_KEY_BIT_WIDTH \div 8) THEN Panic(SplitAtPanic)
    ELSE
    LET sender == Address_from_slice(SplitLeft(pub_data, ETHEREUM_KEY_BIT_WIDTH \div 8))
        left1  == SplitRight(pub_data, ETHEREUM_KEY_BIT_WIDTH \div 8)
    IN
    IF ~CanSplit(left1, TOKEN_BIT_WIDTH \div 8) THEN Panic(SplitAtPanic)
    ELSE
    LET token == u16_from_be_bytes(SplitLeft(left1, TOKEN_BIT_WIDTH \div 8))
        left2 == SplitRight(left1, TOKEN_BIT_WIDTH \div 8)
    IN
    IF ~CanSplit(left2, BALANCE_BIT_WIDTH \div 8) THEN Panic(SplitAtPanic)
    ELSE
    LET amount == u128_to_bigdecimal(
                      u128_from_be_bytes(SplitLeft(left2, BALANCE_BIT_WIDTH \div 8)))
        left3  == SplitRight(left2, BALANCE_BIT_WIDTH \div 8)
    IN
    IF ~CanSplit(left3, FR_ADDRESS_LEN) THEN Panic(SplitAtPanic)
    ELSE
    LET account == Address_from_slice(SplitLeft(left3, FR_ADDRESS_LEN))
        left4   == SplitRight(left3, FR_ADDRESS_LEN)
    IN
    IF left4 # <<>> THEN Err("DepositOp parse failed: input too big")
    ELSE Ok([variant |-> "Deposit",
             from |-> sender, token |-> token, amount |-> amount, to |-> account])

\* parse_from_priority_queue_logs, arm FullExitOp::OP_CODE
ParseFullExit(pub_data) ==
    IF ~CanSplit(pub_data, ACCOUNT_ID_BIT_WIDTH \div 8) THEN Panic(SplitAtPanic)
    ELSE
    LET id_opt == bytes_slice_to_uint32(SplitLeft(pub_data, ACCOUNT_ID_BIT_WIDTH \div 8))
        left1  == SplitRight(pub_data, ACCOUNT_ID_BIT_WIDTH \div 8)
    IN
    IF ~id_opt.some THEN Panic("unwrap on a None value")
    ELSE
    IF ~CanSplit(left1, ETHEREUM_KEY_BIT_WIDTH \div 8) THEN Panic(SplitAtPanic)
    ELSE
    LET eth_address == Address_from_slice(SplitLeft(left1, ETHEREUM_KEY_BIT_WIDTH \div 8))
        left2       == SplitRight(left1, ETHEREUM_KEY_BIT_WIDTH \div 8)
    IN
    IF ~CanSplit(left2, TOKEN_BIT_WIDTH \div 8) THEN Panic(SplitAtPanic)
    ELSE
    LET token == u16_from_be_bytes(SplitLeft(left2, TOKEN_BIT_WIDTH \div 8))
        left3 == SplitRight(left2, TOKEN_BIT_WIDTH \div 8)
    IN
    IF left3 # <<>> THEN Err("FullExitOp parse failed: input too big")
    ELSE Ok([variant |-> "FullExit",
             account_id |-> id_opt.value, eth_address |-> eth_address, token |-> token])

\* ------------------------------------------- Priority-operation dispatcher
\* The dispatcher with the deposit arm as the catch-all arm.
parse_deposit_by_default(pub_data, op_type_id) ==
    IF op_type_id = FullExitOp_OP_CODE THEN ParseFullExit(pub_data)
    ELSE ParseDeposit(pub_data)

\* FranklinPriorityOp::parse_from_priority_queue_logs
parse_from_priority_queue_logs(pub_data, op_type_id) ==
    IF op_type_id = DepositOp_OP_CODE THEN ParseDeposit(pub_data)
    ELSE IF op_type_id = FullExitOp_OP_CODE THEN ParseFullExit(pub_data)
    ELSE Err("Unsupported priority op type")

\* ------------------------------------------------ Event envelope decoder
\* U256::as_u64 (uint crate): "conversion to u64 with overflow checking";
\* panics when the value does not fit 64 bits.
as_u64(u) ==
    IF Len(u) > 8 THEN Panic("Integer overflow when casting to u64") ELSE Ok(u)

\* U256::as_u32 (uint crate): "conversion to u32 with overflow checking";
\* panics when the value does not fit 32 bits.
as_u32(u) ==
    IF Len(u) > 4 THEN Panic("Integer overflow when casting to u32") ELSE Ok(u)

\* `x as u8` of a u32: the low 8 bits.
u32_as_u8(x) == IF x = <<>> THEN 0 ELSE x[Len(x)]

\* ethabi::decode against [Uint(64), Uint(8), Bytes, Uint(256), Uint(256)]:
\* an error when the payload does not match the schema, else the five tokens;
\* every Uint token is the U256 read from its 32-byte word.
decode(data) ==
    IF ~data.wellformed THEN Err("Event data decode")
    ELSE Ok(<< StripZeros(data.serial), StripZeros(data.op_type), data.pubdata,
               StripZeros(data.deadline), StripZeros(data.fee) >>)

\* eth_hash with unwrap_or_default in the place of expect.
eth_hash_or_default(log) ==
    IF ~log.transaction_hash.some THEN Ok(<<>>)
    ELSE Ok(log.transaction_hash.value)

\* try_from, field eth_hash: transaction_hash.expect(..).as_bytes().to_vec()
eth_hash_of(log) ==
    IF ~log.transaction_hash.some THEN Panic("Event transaction hash is missing")
    ELSE Ok(log.transaction_hash.value)

\* TryFrom<Log> for PriorityOp::try_from.  The fields of the record
\* expression are evaluated in the order they are written.
try_from(log) ==
    LET dec == decode(log.data) IN
    IF dec.tag # "Ok" THEN dec
    ELSE
    LET dec_ev == dec.value
        serial_id == as_u64(dec_ev[1])
    IN
    IF serial_id.tag # "Ok" THEN serial_id
    ELSE
    LET op32 == as_u32(dec_ev[2]) IN
    IF op32.tag # "Ok" THEN op32
    ELSE
    LET op_type == u32_as_u8(op32.value)
        op_pubdata == dec_ev[3]
        data == parse_from_priority_queue_logs(op_pubdata, op_type)
    IN
    IF data.tag = "Panic" THEN data
    ELSE IF data.tag = "Err" THEN Panic("Failed to parse priority op data")
    ELSE
    LET deadline_block == as_u64(dec_ev[4]) IN
    IF deadline_block.tag # "Ok" THEN deadline_block
    ELSE
    LET eth_fee == ToDecimalString(dec_ev[5])
        eth_hash == eth_hash_of(log)
    IN
    IF eth_hash.tag # "Ok" THEN eth_hash
    ELSE Ok([serial_id |-> serial_id.value,
             data |-> data.value,
             deadline_block |-> deadline_block.value,
             eth_fee |-> eth_fee,
             eth_hash |-> eth_hash.value])

\* ------------------------------------------------------------ the inputs
\* A buffer of len bytes whose i-th byte (from 0) is (a + b*i) mod 256.
Fill(len, a, b) == [i \in 1..len |-> (a + b * (i - 1)) % 256]

\* 20 x 0x11, token 7, amount 10^18, 20 x 0x22.
ScenarioDeposit ==
    Fill(20, 17, 0) \o <<0, 7>>
        \o <<0, 0, 0, 0, 0, 0, 0, 0, 13, 224, 182, 179, 167, 100, 0, 0>>
        \o Fill(20, 34, 0)

\* account id 42, 20 x 0x33, token 9.
ScenarioFullExit == <<0, 0, 42>> \o Fill(20, 51, 0) \o <<0, 9>>

Patterns == { <<0, 0>>, <<255, 0>>, <<1, 1>>, <<3, 7>>, <<254, 255>>, <<128, 37>> }

Buffers ==
    { Fill(len, p[1], p[2]) : len \in 0..MaxPubdataLen, p \in Patterns }
        \cup { ScenarioDeposit, ScenarioFullExit }

AccountIds == { 0, 42, 65536 + 2 * 256 + 3, 16777215, 16777216, 16777216 + 42, 2147483647 }

TokenIds == { 0, 9, 258, 65535 }

Addresses == { Fill(20, 51, 0), Fill(20, 1, 1), Fill(20, 0, 0), Fill(20, 255, 0) }

FullExits ==
    [account_id : AccountIds, eth_address : Addresses, token : TokenIds]

\* The 32-byte ABI word of a big-endian byte string.
Word(bytes) == Fill(32 - Len(bytes), 0, 0) \o bytes

TxHash == Fill(32, 171, 1)

MkLog(serial, op_type, pubdata, deadline, fee, hash) ==
    [data |-> [wellformed |-> TRUE, serial |-> Word(serial), op_type |-> Word(op_type),
               pubdata |-> pubdata, deadline |-> Word(deadline), fee |-> Word(fee)],
     transaction_hash |-> hash]

GoodDeposit == MkLog(<<5>>, <<1>>, ScenarioDeposit, <<1, 0>>, <<13, 224>>, Some(TxHash))

GoodFullExit == MkLog(<<255, 255, 255, 255, 255, 255, 255, 255>>, <<6>>, ScenarioFullExit,
                      <<7>>, <<>>, Some(TxHash))

LogSamples ==
    { GoodDeposit,
      GoodFullExit,
      \* payload not matching the schema
      [GoodDeposit EXCEPT !.data.wellformed = FALSE],
      \* unsupported op-type
      MkLog(<<5>>, <<0>>, ScenarioDeposit, <<1, 0>>, <<1>>, Some(TxHash)),
      \* op-type integers above 255 whose low byte is a known code
      MkLog(<<5>>, <<1, 1>>, ScenarioDeposit, <<1, 0>>, <<1>>, Some(TxHash)),
      MkLog(<<5>>, <<1, 0, 0, 0, 6>>, ScenarioFullExit, <<1, 0>>, <<1>>, Some(TxHash)),
      \* pubdata one byte short, one byte long
      MkLog(<<5>>, <<1>>, SubSeq(ScenarioDeposit, 1, 57), <<1, 0>>, <<1>>, Some(TxHash)),
      MkLog(<<5>>, <<1>>, ScenarioDeposit \o <<0>>, <<1, 0>>, <<1>>, Some(TxHash)),
      MkLog(<<5>>, <<6>>, SubSeq(ScenarioFullExit, 1, 24), <<1, 0>>, <<1>>, Some(TxHash)),
      MkLog(<<5>>, <<6>>, ScenarioFullExit \o <<0>>, <<1, 0>>, <<1>>, Some(TxHash)),
      \* serial id, deadline block of 2^64 or more
      MkLog(<<1, 0, 0, 0, 0, 0, 0, 0, 5>>, <<1>>, ScenarioDeposit, <<1, 0>>, <<1>>, Some(TxHash)),
      MkLog(<<5>>, <<6>>, ScenarioFullExit, <<2, 0, 0, 0, 0, 0, 0, 1, 0>>, <<1>>, Some(TxHash)),
      \* no transaction hash
      [GoodDeposit EXCEPT !.transaction_hash = None],
      [GoodFullExit EXCEPT !.transaction_hash = None],
      MkLog(<<5>>, <<1>>, SubSeq(ScenarioDeposit, 1, 57), <<1, 0>>, <<1>>, None),
      \* the largest fee
      MkLog(<<6>>, <<1>>, ScenarioDeposit, <<1, 0>>, Fill(32, 255, 0), Some(TxHash)) }

RECURSIVE SeqsUpTo(_, _)
\* The sequences over S of length at most n.
SeqsUpTo(S, n) ==
    IF n = 0 THEN { <<>> }
    ELSE LET shorter == SeqsUpTo(S, n - 1)
         IN  shorter \cup { Append(q, x) : q \in shorter, x \in S }

\* -------------------------------------------------------------- the state
VARIABLES
    pc,            \* which call is in progress and how far it got
    pub_data,      \* parse_from_priority_queue_logs: argument pub_data
    op_type_id,    \* parse_from_priority_queue_logs: argument op_type_id
    parsed,        \* parse_from_priority_queue_logs: what the call produced
    exit,          \* get_bytes: self
    bytes,         \* get_bytes: the returned Vec<u8>
    logs,          \* the logs handed to the ingestion loop
    idx,           \* the loop's position in logs (from 1)
    outcomes,      \* the Results the loop has received so far
    event,         \* try_from: the Log of the latest call
    ret            \* try_from: what the latest call produced

vars == << pc, pub_data, op_type_id, parsed, exit, bytes, logs, idx,
           outcomes, event, ret >>

Pending == [tag |-> "Pending"]

NoExit == [account_id |-> 0, eth_address |-> Fill(20, 0, 0), token |-> 0]

Init ==
    /\ parsed = Pending
    /\ bytes = <<>>
    /\ idx = 1
    /\ outcomes = <<>>
    /\ event = None
    /\ ret = Pending
    /\ \/ /\ pc = "parse"
          /\ pub_data \in Buffers
          /\ op_type_id \in Byte
          /\ exit = NoExit
          /\ logs = <<>>
       \/ /\ pc = "encode"
          /\ pub_data = <<>>
          /\ op_type_id = 0
          /\ exit \in FullExits
          /\ logs = <<>>
       \/ /\ pc = "ingest"
          /\ pub_data = <<>>
          /\ op_type_id = 0
          /\ exit = NoExit
          /\ logs \in SeqsUpTo(LogSamples, MaxLogs)

\* A caller decodes pub_data under op_type_id.
Parse ==
    /\ pc = "parse"
    /\ parsed' = parse_from_priority_queue_logs(pub_data, op_type_id)
    /\ pc' = "parsed"
    /\ UNCHANGED << pub_data, op_type_id, exit, bytes, logs, idx,
                    outcomes, event, ret >>

\* A caller encodes the FullExit value exit.
GetBytes ==
    /\ pc = "encode"
    /\ bytes' = get_bytes(exit)
    /\ pc' = "encoded"
    /\ UNCHANGED << pub_data, op_type_id, parsed, exit, logs, idx,
                    outcomes, event, ret >>

\* A caller decodes what get_bytes returned under the full-exit op-type
\* code: either all of it, or what follows its one-byte tag.
DecodeEncoded ==
    /\ pc = "encoded"
    /\ \E skip \in {0, 1} :
          /\ pub_data' = SubSeq(bytes, skip + 1, Len(bytes))
          /\ op_type_id' = FullExitOp_OP_CODE
          /\ parsed' = parse_from_priority_queue_logs(pub_data', op_type_id')
          /\ pc' = IF skip = 0 THEN "decoded_all" ELSE "decoded_body"
    /\ UNCHANGED << exit, bytes, logs, idx, outcomes, event, ret >>

\* The ingestion loop converts the next log; a panic of try_from unwinds
\* out of the loop.
IngestStep ==
    /\ pc = "ingest"
    /\ idx <= Len(logs)
    /\ event' = Some(logs[idx])
    /\ ret' = try_from(logs[idx])
    /\ IF ret'.tag = "Panic"
       THEN /\ pc' = "aborted"
            /\ UNCHANGED << idx, outcomes >>
       ELSE /\ pc' = pc
            /\ idx' = idx + 1
            /\ outcomes' = Append(outcomes, ret')
    /\ UNCHANGED << pub_data, op_type_id, parsed, exit, bytes, logs >>

\* The ingestion loop has converted every log.
IngestDone ==
    /\ pc = "ingest"
    /\ idx > Len(logs)
    /\ pc' = "done"
    /\ UNCHANGED << pub_data, op_type_id, parsed, exit, bytes, logs, idx,
                    outcomes, event, ret >>

Next == Parse \/ GetBytes \/ DecodeEncoded \/ IngestStep \/ IngestDone

Spec == Init /\ [][Next]_vars

\* ------------------------------------------------- vocabulary of the claims
\* The failure kinds of the specification, by the message the code attaches.
ErrKind(msg) ==
    CASE msg = "Event data decode" -> "EnvelopeDecodeError"
      [] msg = "Unsupported priority op type" -> "UnsupportedOperationType"
      [] msg = "DepositOp parse failed: input too big" -> "MalformedPubdata"
      [] msg = "FullExitOp parse failed: input too big" -> "MalformedPubdata"
      [] OTHER -> "Other"

\* A failure value of the given kind, returned to the caller.
Fails(r, kind) == r.tag = "Err" /\ ErrKind(r.msg) = kind

\* The sum of the field byte-widths of each kind.
DepositLen ==
    ETHEREUM_KEY_BIT_WIDTH \div 8 + TOKEN_BIT_WIDTH \div 8 + BALANCE_BIT_WIDTH \div 8
        + FR_ADDRESS_LEN

FullExitLen ==
    ACCOUNT_ID_BIT_WIDTH \div 8 + ETHEREUM_KEY_BIT_WIDTH \div 8 + TOKEN_BIT_WIDTH \div 8

ExpectedLen(op) == IF op = DepositOp_OP_CODE THEN DepositLen ELSE FullExitLen

KnownCodes == { DepositOp_OP_CODE, FullExitOp_OP_CODE }

\* The states in which parse_from_priority_queue_logs has returned for
\* (pub_data, op_type_id).
ParseReturned == pc \in { "parsed", "decoded_all", "decoded_body" }

RECURSIVE Residue(_, _, _, _)
\* The value of the digit string s in the given base, modulo p (acc so far).
Residue(s, base, p, acc) ==
    IF s = <<>> THEN acc
    ELSE Residue(Tail(s), base, p, (acc * base + Head(s)) % p)

\* Pairwise distinct primes whose product exceeds 10^39 (and so 2^128).
Moduli == { 9973, 9967, 9949, 9941, 9931, 9929, 9923, 9907, 9901, 9887, 9883 }

\* The decimal digit string d (at most 39 digits) and the big-endian byte
\* string b (at most 16 bytes) denote the same integer: both are below the
\* product of the moduli and agree modulo each of them.
SameInteger(d, b) ==
    /\ Len(d) <= 39
    /\ Len(b) <= 16
    /\ \A p \in Moduli : Residue(d, 10, p, 0) = Residue(b, 256, p, 0)

\* A canonical decimal: digits 0..9, no leading zero except for zero itself.
IsDecimal(d) ==
    /\ Len(d) >= 1
    /\ \A i \in 1..Len(d) : d[i] \in 0..9
    /\ (Len(d) > 1 => d[1] # 0)

\* 2^128 - 1 = 340282366920938463463374607431768211455
MaxU128Decimal ==
    << 3,4,0,2,8,2,3,6,6,9,2,0,9,3,8,4,6,3,4,6,3,3,7,4,6,0,7,4,3,1,7,6,8,2,1,1,4,5,5 >>

\* 10^18
TenTo18Decimal == <<1>> \o Fill(18, 0, 0)

\* ------------------------------------------------------------------ C1
\* C1 (as claimed): for the deposit and the full-exit op-type code, the
\* dispatcher succeeds exactly when the buffer length is the sum of the
\* kind's field widths, and for every other length, shorter or longer, it
\* returns a MalformedPubdata failure value (it never aborts the caller).
C1_ExactConsumption ==
    (pc = "parsed" /\ op_type_id \in KnownCodes) =>
        /\ (Len(pub_data) = ExpectedLen(op_type_id) => parsed.tag = "Ok")
        /\ (Len(pub_data) # ExpectedLen(op_type_id) => Fails(parsed, "MalformedPubdata"))

\* ------------------------------------------------------------------ C2
\* C2 (as claimed): for every valid FullExit value, decoding all the bytes
\* get_bytes returned, under the full-exit op-type code, succeeds and yields
\* the value's account_id, eth_address and token.
C2_RoundTripWhole ==
    (pc = "decoded_all" /\ exit.account_id < 2 ^ ACCOUNT_ID_BIT_WIDTH) =>
        /\ parsed.tag = "Ok"
        /\ parsed.value.variant = "FullExit"
        /\ parsed.value.account_id = exit.account_id
        /\ parsed.value.eth_address = exit.eth_address
        /\ parsed.value.token = exit.token

\* C2 (amended): for every valid FullExit value, decoding the bytes get_bytes
\* returned with the leading tag byte removed, under the full-exit op-type
\* code, succeeds and yields the value's account_id, eth_address and token;
\* decoding all the bytes, tag included, fails with "input too big".
C2_RoundTripBody ==
    /\ (pc = "decoded_body" /\ exit.account_id < 2 ^ ACCOUNT_ID_BIT_WIDTH) =>
          /\ parsed.tag = "Ok"
          /\ parsed.value.variant = "FullExit"
          /\ parsed.value.account_id = exit.account_id
          /\ parsed.value.eth_address = exit.eth_address
          /\ parsed.value.token = exit.token
    /\ pc = "decoded_all" =>
          /\ Fails(parsed, "MalformedPubdata")
          /\ parsed.msg = "FullExitOp parse failed: input too big"

\* A valid FullExit with every field non-zero has made the round trip.
C2_Witness ==
    /\ pc = "decoded_body"
    /\ exit.account_id = 65536 + 2 * 256 + 3
    /\ exit.token = 258
    /\ exit.eth_address = Fill(20, 1, 1)
    /\ parsed.tag = "Ok"

\* ------------------------------------------------------------------ C3
\* C3: get_bytes returns 1 + ACCOUNT_ID_BIT_WIDTH/8 + 20 + 2 bytes for every
\* FullExit value: the tag 0x06, the account id in big-endian without the
\* most significant byte of its 32-bit form, the 20 address bytes unchanged,
\* the token id in 2 big-endian bytes.
C3_CanonicalEncoding ==
    pc \in { "encoded", "decoded_all", "decoded_body" } =>
        /\ Len(bytes) = 1 + ACCOUNT_ID_BIT_WIDTH \div 8 + 20 + 2
        /\ \A i \in 1..Len(bytes) : bytes[i] \in Byte
        /\ bytes[1] = 6
        /\ bytes[2] * 65536 + bytes[3] * 256 + bytes[4] = exit.account_id % 16777216
        /\ SubSeq(bytes, 5, 24) = exit.eth_address
        /\ bytes[25] * 256 + bytes[26] = exit.token

\* An account id with a non-zero most significant byte has been encoded.
C3_Witness ==
    /\ pc = "encoded"
    /\ exit.account_id = 16777216 + 42
    /\ exit.token = 258
    /\ bytes[4] = 42

\* ------------------------------------------------------------------ C4
\* C4: a 58-byte buffer under the deposit code decodes to a Deposit with
\* from = bytes 0..20, token = the big-endian value of bytes 20..22, amount =
\* the exact big-endian 128-bit value of bytes 22..38 (0 and 2^128-1
\* included), to = bytes 38..58.
C4_DepositDecoding ==
    (pc = "parsed" /\ op_type_id = DepositOp_OP_CODE /\ Len(pub_data) = 58) =>
        /\ parsed.tag = "Ok"
        /\ parsed.value.variant = "Deposit"
        /\ parsed.value.from = SubSeq(pub_data, 1, 20)
        /\ parsed.value.token = pub_data[21] * 256 + pub_data[22]
        /\ IsDecimal(parsed.value.amount)
        /\ SameInteger(parsed.value.amount, SubSeq(pub_data, 23, 38))
        /\ parsed.value.to = SubSeq(pub_data, 39, 58)
        /\ (SubSeq(pub_data, 23, 38) = Fill(16, 0, 0) => parsed.value.amount = <<0>>)
        /\ (SubSeq(pub_data, 23, 38) = Fill(16, 255, 0)
               => parsed.value.amount = MaxU128Decimal)
        /\ (pub_data = ScenarioDeposit =>
               /\ parsed.value.amount = TenTo18Decimal
               /\ parsed.value.token = 7)

\* The deposit of amount 2^128 - 1 has been decoded.
C4_Witness ==
    /\ pc = "parsed"
    /\ op_type_id = DepositOp_OP_CODE
    /\ pub_data = Fill(58, 255, 0)
    /\ parsed.tag = "Ok"
    /\ parsed.value.amount = MaxU128Decimal

\* ------------------------------------------------------------------ C5
\* C5: under any op-type byte other than the deposit and the full-exit code
\* the dispatcher returns the UnsupportedOperationType failure whatever the
\* buffer (of any length, empty included); a Deposit comes only from the
\* deposit code and a FullExit only from the full-exit code.
C5_DiscriminantExhaustive ==
    ParseReturned =>
        /\ op_type_id \notin KnownCodes =>
              /\ Fails(parsed, "UnsupportedOperationType")
              /\ parsed = [tag |-> "Err", msg |-> "Unsupported priority op type"]
        /\ parsed.tag = "Ok" =>
              /\ parsed.value.variant \in { "Deposit", "FullExit" }
              /\ (parsed.value.variant = "Deposit" => op_type_id = DepositOp_OP_CODE)
              /\ (parsed.value.variant = "FullExit" => op_type_id = FullExitOp_OP_CODE)

\* An unknown code has been dispatched on an empty buffer.
C5_Witness ==
    /\ pc = "parsed"
    /\ op_type_id = 255
    /\ pub_data = <<>>
    /\ parsed.tag = "Err"

\* --------------------------------------------- the envelope of the last call
\* try_from has been called on event and produced ret.
FromLogCalled == event.some

\* A 32-byte ABI word below 2^64.
Fits64(word) == \A i \in 1..24 : word[i] = 0

\* A 32-byte ABI word below 2^8.
Fits8(word) == \A i \in 1..31 : word[i] = 0

\* The op-type integer of the envelope is exactly the code c.
OpTypeIs(log, c) == Fits8(log.data.op_type) /\ log.data.op_type[32] = c

\* The envelope matches the schema and its serial id fits 64 bits and its
\* op-type fits 8 bits: try_from reaches the dispatcher with that op-type.
ReachesDispatcher(log) ==
    /\ log.data.wellformed
    /\ Fits64(log.data.serial)
    /\ Fits8(log.data.op_type)

\* The pubdata of the envelope parses: a known code and the exact length.
PubdataParses(log) ==
    \E c \in KnownCodes :
        OpTypeIs(log, c) /\ Len(log.data.pubdata) = ExpectedLen(c)

\* Everything but the transaction hash decodes.
DecodableButHash(log) ==
    /\ ReachesDispatcher(log)
    /\ PubdataParses(log)
    /\ Fits64(log.data.deadline)

\* ------------------------------------------------------------------ C6
\* C6 (as claimed): when the envelope is well-formed and its pubdata does not
\* parse (wrong length for the kind, or unsupported op-type), try_from returns
\* the failure value the dispatcher returns for that pubdata and op-type:
\* UnsupportedOperationType for an unknown code, MalformedPubdata otherwise.
C6_EnvelopePropagation ==
    (FromLogCalled /\ ReachesDispatcher(event.value) /\ ~PubdataParses(event.value)) =>
        IF event.value.data.op_type[32] \in KnownCodes
        THEN Fails(ret, "MalformedPubdata")
        ELSE Fails(ret, "UnsupportedOperationType")

\* ------------------------------------------------------------------ C7
\* C7 (as claimed): a serial id or a deadline block of 2^64 or more makes
\* try_from return an IntegerRangeError failure, and the serial_id and
\* deadline_block of a returned record are the envelope's full integers.
C7_CheckedNarrowing ==
    FromLogCalled =>
        /\ (event.value.data.wellformed /\ ~Fits64(event.value.data.serial))
              => Fails(ret, "IntegerRangeError")
        /\ ( /\ ReachesDispatcher(event.value)
             /\ PubdataParses(event.value)
             /\ ~Fits64(event.value.data.deadline) )
              => Fails(ret, "IntegerRangeError")
        /\ ret.tag = "Ok" =>
              /\ Word(ret.value.serial_id) = event.value.data.serial
              /\ Word(ret.value.deadline_block) = event.value.data.deadline

C9_FailureIsolation ==
    /\ pc # "aborted"
    /\ pc = "done" => Len(outcomes) = Len(logs)
    /\ \A i \in 1..Len(outcomes) : outcomes[i].tag \in { "Ok", "Err" }

\* ------------------------------------------------------------------ C10
\* C10 (as claimed): try_from returns a Deposit (a FullExit) record only when
\* the op-type integer of the envelope is exactly the deposit (full-exit)
\* code; an integer above 255 with the low byte of a known code yields none.
C10_NoOpTypeAliasing ==
    (FromLogCalled /\ ret.tag = "Ok") =>
        /\ (ret.value.data.variant = "Deposit"
               => OpTypeIs(event.value, DepositOp_OP_CODE))
        /\ (ret.value.data.variant = "FullExit"
               => OpTypeIs(event.value, FullExitOp_OP_CODE))

====
